---- MODULE Spec2Model ----
(***************************************************************************)
(* TTSTokenizer (TTS/tts/utils/text/tokenizer.py): text -> token IDs and   *)
(* back, with the accumulated list of not found characters.                *)
(*                                                                         *)
(* A Python character is a string atom ("a", "z"); a Python str is a       *)
(* sequence of characters; a vocabulary symbol is a str; a Python list of  *)
(* str is a sequence of symbols.  Token IDs are 0-based vocab positions.   *)
(***************************************************************************)
EXTENDS Integers, Sequences, FiniteSets, TLC

VARIABLES tok, heap, last, own

vars == <<tok, heap, last, own>>

\* ------------------------------------------------------------------ bounds
MaxLen == 3
MaxNotFound == 2

\* ------------------------------------------------------------ Python values
None == "None"

Str(s) == [isList |-> FALSE, v |-> s]
List(l) == [isList |-> TRUE, v |-> l]

\* list(x): a str becomes the list of its one-character strings
list(x) == IF x.isList THEN x.v ELSE [k \in 1..Len(x.v) |-> <<x.v[k]>>]

RECURSIVE Concat(_)
Concat(l) == IF l = <<>> THEN <<>> ELSE Head(l) \o Concat(Tail(l))

IsPrefix(p, s) == Len(p) <= Len(s) /\ SubSeq(s, 1, Len(p)) = p

Range(s) == {s[k] : k \in 1..Len(s)}

NoDuplicates(s) == \A j, k \in 1..Len(s) : s[j] = s[k] => j = k

\* ------------------------------------------------------------ CharacterSet
PAD == <<"<", "P", "A", "D", ">">>
EOS == <<"<", "E", "O", "S", ">">>
BOS == <<"<", "B", "O", "S", ">">>
BLNK == <<"<", "B", "L", "N", "K", ">">>

\* single-character symbols a, b; "z" is out of vocabulary
Graphemes ==
  [vocab |-> <<PAD, EOS, BOS, BLNK, <<"a">>, <<"b">> >>,
   pad |-> PAD, eos |-> EOS, bos |-> BOS, blank |-> BLNK]

\* a multi-character symbol "ab" listed after its prefix "a"; "b" alone is
\* out of vocabulary (a base letter and the letter with a combining mark)
Combined ==
  [vocab |-> <<PAD, EOS, BOS, BLNK, <<"a">>, <<"a", "b">>, <<"z">> >>,
   pad |-> PAD, eos |-> EOS, bos |-> BOS, blank |-> BLNK]

\* the multi-character symbol "ab" listed before its prefix "a"; "z" is out
\* of vocabulary
Digraph ==
  [vocab |-> <<PAD, EOS, BOS, BLNK, <<"a", "b">>, <<"a">>, <<"b">> >>,
   pad |-> PAD, eos |-> EOS, bos |-> BOS, blank |-> BLNK]

\* jamo inventory for the Korean phonemizer's output ("J_G" is the jamo
\* U+1100, "J_A" the jamo U+1161), plus the letter a
Jamo ==
  [vocab |-> <<PAD, EOS, BOS, BLNK, <<"J_G">>, <<"J_A">>, <<"a">> >>,
   pad |-> PAD, eos |-> EOS, bos |-> BOS, blank |-> BLNK]

\* the Characters objects, by name
CharacterSets ==
  [Graphemes |-> Graphemes, Combined |-> Combined, Digraph |-> Digraph,
   Jamo |-> Jamo]

InVocab(cs, sym) == \E j \in 1..Len(cs.vocab) : cs.vocab[j] = sym

\* char_to_id: [err, id]; fails on a symbol absent from vocab
char_to_id(cs, sym) ==
  IF InVocab(cs, sym)
    THEN [err |-> None,
          id |-> (CHOOSE j \in 1..Len(cs.vocab) : cs.vocab[j] = sym) - 1]
    ELSE [err |-> "UnknownSymbolError", id |-> 0]

\* id_to_char: [err, char]; fails on an id out of range
id_to_char(cs, id) ==
  IF id >= 0 /\ id < Len(cs.vocab)
    THEN [err |-> None, char |-> cs.vocab[id + 1]]
    ELSE [err |-> "OutOfRangeError", char |-> <<>>]

\* ------------------------------------------------- RegexpTokenizer(pattern)
\* pattern = "|".join(re.escape(x) for x in vocab): an ordered alternation of
\* literals, kept as the sequence of its alternatives
MakePattern(name) == CharacterSets[name].vocab

MatchesAt(sym, text, i) ==
  /\ Len(sym) > 0
  /\ i + Len(sym) - 1 <= Len(text)
  /\ \A k \in 1..Len(sym) : text[i + k - 1] = sym[k]

\* the alternative the regex engine takes at position i: the first one, in
\* pattern order, that matches there (0: none matches)
RECURSIVE FirstMatch(_, _, _, _)
FirstMatch(pattern, text, i, j) ==
  IF j > Len(pattern) THEN 0
  ELSE IF MatchesAt(pattern[j], text, i) THEN j
  ELSE FirstMatch(pattern, text, i, j + 1)

MatchAt(pattern, text, i) == FirstMatch(pattern, text, i, 1)

\* re.findall: the matches, scanning left to right
RECURSIVE Findall(_, _, _)
Findall(pattern, text, i) ==
  IF i > Len(text) THEN <<>>
  ELSE LET j == MatchAt(pattern, text, i)
       IN  IF j = 0 THEN Findall(pattern, text, i + 1)
           ELSE <<pattern[j]>> \o Findall(pattern, text, i + Len(pattern[j]))

\* re.split: the pieces between the matches, empty pieces included
RECURSIVE Split(_, _, _, _)
Split(pattern, text, i, cur) ==
  IF i > Len(text) THEN <<cur>>
  ELSE LET j == MatchAt(pattern, text, i)
       IN  IF j = 0 THEN Split(pattern, text, i + 1, Append(cur, text[i]))
           ELSE <<cur>> \o Split(pattern, text, i + Len(pattern[j]), <<>>)

\* self.tokenizer.tokenize(text)
tokenizer_tokenize(pattern, text) == Findall(pattern, text, 1)

\* self.not_found_tokenizer.tokenize(text): gaps=True, discard_empty=True
not_found_tokenizer_tokenize(pattern, text) ==
  SelectSeq(Split(pattern, text, 1, <<>>), LAMBDA p : p # <<>>)

\* ---------------------------------------------------------------- cleaners
\* a registered cleaner: lowercase
lowercase(text) ==
  [k \in 1..Len(text) |->
     IF text[k] = "A" THEN "a" ELSE IF text[k] = "B" THEN "b" ELSE text[k]]

cleaners(name, text) == IF name = "lowercase" THEN lowercase(text) ELSE text

\* -------------------------------------------------------------- phonemizers
NoPhonemizer == [kind |-> "None", langs |-> {}]
KO_KR_Phonemizer == [kind |-> "backend", langs |-> {"ko-kr"}]
PhonemizerDict == [kind |-> "dict", langs |-> {"ko-kr"}]

\* Hangul decomposition: the syllable block "H_GA" (U+AC00) becomes its jamo,
\* every other character passes through
RECURSIVE korean_text_to_phonemes(_)
korean_text_to_phonemes(text) ==
  IF text = <<>> THEN <<>>
  ELSE (IF Head(text) = "H_GA" THEN <<"J_G", "J_A">> ELSE <<Head(text)>>)
         \o korean_text_to_phonemes(Tail(text))

\* KO_KR_Phonemizer.phonemize(text, separator="")
KO_KR_phonemize(text) == korean_text_to_phonemes(text)

\* self.phonemizer.phonemize(text, separator=""): the attribute lookup
\* succeeds on a phonemizer object only, not on None and not on a dict
phonemizer_phonemize(phonemizer, text) ==
  IF phonemizer.kind = "backend"
    THEN [err |-> None, text |-> KO_KR_phonemize(text)]
    ELSE [err |-> "AttributeError", text |-> <<>>]

\* ------------------------------------------------------------- TTSTokenizer
\* one list object shared by every instance (a class attribute, a mutable
\* default argument)
SharedList(h) == 1

\* self.not_found_characters = []: the reference of a new list object
NewList(h) == Len(h) + 1

\* characters setter: pad_id, blank_id and both tokenizers follow the new
\* vocabulary; a failing char_to_id leaves the assignments before it in place
characters_setter(t, new_characters) ==
  LET cs == CharacterSets[new_characters]
      p == char_to_id(cs, cs.pad)
      b == char_to_id(cs, cs.blank)
      t1 == [t EXCEPT !.characters = new_characters]
      t2 == [t1 EXCEPT !.pad_id = p.id]
  IN  IF p.err # None THEN [err |-> p.err, obj |-> t1]
      ELSE IF b.err # None THEN [err |-> b.err, obj |-> t2]
      ELSE [err |-> None,
            obj |-> [t2 EXCEPT !.blank_id = b.id,
                               !.tokenizer = new_characters,
                               !.not_found_tokenizer = new_characters]]

\* the fields of an instance; tokenizer and not_found_tokenizer name the
\* character set whose vocab their pattern was compiled from
NoTok ==
  [alive |-> FALSE, text_cleaner |-> None, use_phonemes |-> FALSE,
   add_blank |-> FALSE, use_eos_bos |-> FALSE, characters |-> None,
   not_found_characters |-> 0, phonemizer |-> NoPhonemizer,
   pad_id |-> 0, blank_id |-> 0, tokenizer |-> None,
   not_found_tokenizer |-> None]

\* __init__: [err, obj, heap]
init(use_phonemes, text_cleaner, characters, phonemizer, add_blank, use_eos_bos, h) ==
  LET t0 == [NoTok EXCEPT !.text_cleaner = text_cleaner,
                          !.use_phonemes = use_phonemes,
                          !.add_blank = add_blank,
                          !.use_eos_bos = use_eos_bos]
      s == characters_setter(t0, characters)
      r == NewList(h)
  IN  IF s.err # None
        THEN [err |-> s.err, obj |-> NoTok, heap |-> h]
        ELSE [err |-> None,
              obj |-> [s.obj EXCEPT !.alive = TRUE,
                                    !.not_found_characters = r,
                                    !.phonemizer = phonemizer,
                                    !.tokenizer = characters,
                                    !.not_found_tokenizer = characters],
              heap |-> IF r \in DOMAIN h THEN h ELSE Append(h, <<>>)]

\* every entry appended, the membership test left out
log_every_character(nf, chars) == nf \o chars

\* log_not_found_characters: append each entry that is not yet in the list
RECURSIVE log_not_found_characters(_, _)
log_not_found_characters(nf, chars) ==
  IF chars = <<>> THEN nf
  ELSE log_not_found_characters(
         IF Head(chars) \in Range(nf) THEN nf ELSE Append(nf, Head(chars)),
         Tail(chars))

\* [char_to_id(char) for char in tokenized_text]: [err, ids]; the first
\* failing char_to_id ends the comprehension
chars_to_ids(cs, syms) ==
  IF \E k \in 1..Len(syms) : ~InVocab(cs, syms[k])
    THEN [err |-> "UnknownSymbolError", ids |-> <<>>]
    ELSE [err |-> None, ids |-> [k \in 1..Len(syms) |-> char_to_id(cs, syms[k]).id]]

\* encode: [err, ids, tokenized_text, not_found], tokenized_text the symbols
\* handed to char_to_id and not_found the entries handed to
\* log_not_found_characters
encode(t, text) ==
  LET tokenized_text ==
        IF ~text.isList THEN tokenizer_tokenize(MakePattern(t.tokenizer), text.v)
        ELSE text.v
      not_found ==
        IF ~text.isList
          THEN not_found_tokenizer_tokenize(MakePattern(t.not_found_tokenizer), text.v)
          ELSE <<>>
      r == chars_to_ids(CharacterSets[t.characters], tokenized_text)
  IN  [err |-> r.err, ids |-> r.ids, tokenized_text |-> tokenized_text,
       not_found |-> not_found]

\* decode: [err, text]; the first failing id_to_char ends the loop
decode(t, token_ids) ==
  LET cs == CharacterSets[t.characters]
  IN  IF \E k \in 1..Len(token_ids) : id_to_char(cs, token_ids[k]).err # None
        THEN [err |-> "OutOfRangeError", text |-> <<>>]
        ELSE [err |-> None,
              text |-> Concat([k \in 1..Len(token_ids) |->
                                 id_to_char(cs, token_ids[k]).char])]

\* the two markers exchanged
pad_with_eos_bos(t, char_sequence) ==
  LET cs == CharacterSets[t.characters]
  IN  <<cs.eos>> \o list(char_sequence) \o <<cs.bos>>

\* pad_with_bos_eos: [bos] + list(char_sequence) + [eos]
pad_with_bos_eos(t, char_sequence) ==
  LET cs == CharacterSets[t.characters]
  IN  <<cs.bos>> \o list(char_sequence) \o <<cs.eos>>

\* the filler always the blank symbol, use_blank_char ignored
intersperse_blank_only(t, char_sequence, use_blank_char) ==
  LET cs == CharacterSets[t.characters]
      items == list(char_sequence)
  IN  [k \in 1..(Len(items) * 2 + 1) |->
         IF k % 2 = 0 THEN items[k \div 2] ELSE cs.blank]

\* intersperse_blank_char: result[1::2] = char_sequence over a list of fillers
intersperse_blank_char(t, char_sequence, use_blank_char) ==
  LET cs == CharacterSets[t.characters]
      char_to_use == IF use_blank_char THEN cs.blank ELSE cs.pad
      items == list(char_sequence)
  IN  [k \in 1..(Len(items) * 2 + 1) |->
         IF k % 2 = 0 THEN items[k \div 2] ELSE char_to_use]

\* the value text_to_ids hands to encode: [err, v]
text_to_ids_input(t, text, language) ==
  LET t1 == IF t.text_cleaner # None THEN cleaners(t.text_cleaner, text) ELSE text
      p == IF t.use_phonemes THEN phonemizer_phonemize(t.phonemizer, t1)
           ELSE [err |-> None, text |-> t1]
      t2 == Str(p.text)
      t3 == IF t.add_blank THEN List(intersperse_blank_char(t, t2, TRUE)) ELSE t2
      t4 == IF t.use_eos_bos THEN List(pad_with_bos_eos(t, t3)) ELSE t3
  IN  [err |-> p.err, v |-> t4]

\* text_to_ids: the outcome of encode, or the failure before it
text_to_ids(t, text, language) ==
  LET x == text_to_ids_input(t, text, language)
  IN  IF x.err # None
        THEN [err |-> x.err, ids |-> <<>>, tokenized_text |-> <<>>,
              not_found |-> <<>>]
        ELSE encode(t, x.v)

\* ids_to_text
ids_to_text(t, id_sequence) == decode(t, id_sequence)

\* Graphemes().init_from_config(config), IPAPhonemes().init_from_config(config):
\* the character set the config selects
Graphemes_init_from_config(config) == "Graphemes"
IPAPhonemes_init_from_config(config) == "Jamo"

\* the phonemizer registry and the default phonemizer of each language
DEF_LANG_TO_PHONEMIZER == [l \in {"ko-kr"} |-> "ko_kr_phonemizer"]

get_phonemizer_by_name(name, language) ==
  IF name = "ko_kr_phonemizer" THEN KO_KR_Phonemizer ELSE NoPhonemizer

\* init_from_config: [err, obj, heap]. The locals text_cleaner and phonemizer
\* are bound only in the branches that assign them; the return statement
\* reads both, and reading an unbound local raises UnboundLocalError
init_from_config(config, h) ==
  LET text_cleaner_bound == config.text_cleaner # None
      text_cleaner == config.text_cleaner
      characters == IF config.use_phonemes
                      THEN IPAPhonemes_init_from_config(config)
                      ELSE Graphemes_init_from_config(config)
      phonemizer_bound == config.use_phonemes
      phonemizer ==
        IF config.phonemizer # None
          THEN get_phonemizer_by_name(config.phonemizer, config.phoneme_language)
          ELSE get_phonemizer_by_name(
                 DEF_LANG_TO_PHONEMIZER[config.phoneme_language],
                 config.phoneme_language)
  IN  IF ~text_cleaner_bound \/ ~phonemizer_bound
        THEN [err |-> "UnboundLocalError", obj |-> NoTok, heap |-> h]
        ELSE init(config.use_phonemes, text_cleaner, characters, phonemizer,
                  config.add_blank, config.enable_eos_bos_chars, h)

\* ------------------------------------------------------------------ inputs
Alphabet == {"a", "b", "z"}

StringsOver(A, n) == UNION {[1..k -> A] : k \in 0..n}

Texts == StringsOver(Alphabet, MaxLen)
ShortTexts == StringsOver({"a", "z"}, MaxLen - 1)
KoTexts == StringsOver({"H_GA", "a"}, MaxLen - 1)
SymbolLists == StringsOver({<<"a">>, <<"a", "b">>, <<"z">>}, MaxLen - 1)
IdSequences == StringsOver({0, 5, 6}, MaxLen - 1)
Languages == {None, "ko-kr", "en-us"}

\* the configurations of the contract: text_cleaner a registered name or
\* absent, phonemizer a backend name or absent
Configs ==
  [use_phonemes : BOOLEAN, text_cleaner : {None, "lowercase"},
   add_blank : BOOLEAN, enable_eos_bos_chars : BOOLEAN,
   phoneme_language : {"ko-kr"}, phonemizer : {None, "ko_kr_phonemizer"}]

NoConfig ==
  [use_phonemes |-> FALSE, text_cleaner |-> None, add_blank |-> FALSE,
   enable_eos_bos_chars |-> FALSE, phoneme_language |-> "ko-kr",
   phonemizer |-> None]

\* ------------------------------------------------------------------- state
\* tok[i]: the fields of tokenizer instance i; heap[r]: the list object r;
\* last: the call in progress, its arguments and its outcome (err = None: it
\* returns a value), "none" between calls; own[i]: the entries instance i's
\* own calls have logged
NoCall ==
  [op |-> "none", self |-> 0, isList |-> FALSE, text |-> <<>>, syms |-> <<>>,
   language |-> None, in_ids |-> <<>>, use_blank_char |-> FALSE,
   err |-> None, ids |-> <<>>, tokenized_text |-> <<>>, out |-> <<>>,
   out_syms |-> <<>>, pre |-> <<>>, config |-> NoConfig]

not_found_characters(i) == heap[tok[i].not_found_characters]

Init ==
  /\ tok = [i \in {1, 2} |-> NoTok]
  /\ heap = <<>>
  /\ last = NoCall
  /\ own = [i \in {1, 2} |-> <<>>]

\* TTSTokenizer(use_phonemes, text_cleaner, characters, phonemizer, add_blank, use_eos_bos)
Construct(i, use_phonemes, text_cleaner, characters, phonemizer, add_blank, use_eos_bos) ==
  /\ last.op = "none"
  /\ ~tok[i].alive
  /\ LET r == init(use_phonemes, text_cleaner, characters, phonemizer,
                   add_blank, use_eos_bos, heap)
     IN  /\ tok' = [tok EXCEPT ![i] = r.obj]
         /\ heap' = r.heap
         /\ last' = [NoCall EXCEPT !.op = "__init__", !.self = i, !.err = r.err]
  /\ UNCHANGED own

\* TTSTokenizer.init_from_config(config)
InitFromConfig(i, config) ==
  /\ last.op = "none"
  /\ ~tok[i].alive
  /\ LET r == init_from_config(config, heap)
     IN  /\ tok' = [tok EXCEPT ![i] = r.obj]
         /\ heap' = r.heap
         /\ last' = [NoCall EXCEPT !.op = "init_from_config", !.self = i,
                                   !.config = config, !.err = r.err]
  /\ UNCHANGED own

\* tokenizer.encode(x)
Encode(i, x) ==
  /\ last.op = "none"
  /\ tok[i].alive
  /\ LET ref == tok[i].not_found_characters
         r == encode(tok[i], x)
         nf == log_not_found_characters(heap[ref], r.not_found)
     IN  /\ Len(nf) <= MaxNotFound
         /\ heap' = [heap EXCEPT ![ref] = nf]
         /\ last' = [NoCall EXCEPT !.op = "encode", !.self = i,
                                   !.isList = x.isList,
                                   !.text = IF x.isList THEN <<>> ELSE x.v,
                                   !.syms = IF x.isList THEN x.v ELSE <<>>,
                                   !.err = r.err, !.ids = r.ids,
                                   !.tokenized_text = r.tokenized_text,
                                   !.pre = heap[ref]]
         /\ own' = [own EXCEPT ![i] = log_not_found_characters(own[i], r.not_found)]
  /\ UNCHANGED tok

\* tokenizer.text_to_ids(text, language)
TextToIds(i, text, language) ==
  /\ last.op = "none"
  /\ tok[i].alive
  /\ LET ref == tok[i].not_found_characters
         r == text_to_ids(tok[i], text, language)
         nf == log_not_found_characters(heap[ref], r.not_found)
     IN  /\ Len(nf) <= MaxNotFound
         /\ heap' = [heap EXCEPT ![ref] = nf]
         /\ last' = [NoCall EXCEPT !.op = "text_to_ids", !.self = i,
                                   !.text = text, !.language = language,
                                   !.err = r.err, !.ids = r.ids,
                                   !.tokenized_text = r.tokenized_text,
                                   !.pre = heap[ref]]
         /\ own' = [own EXCEPT ![i] = log_not_found_characters(own[i], r.not_found)]
  /\ UNCHANGED tok

\* tokenizer.ids_to_text(id_sequence)
IdsToText(i, id_sequence) ==
  /\ last.op = "none"
  /\ tok[i].alive
  /\ LET r == ids_to_text(tok[i], id_sequence)
     IN  last' = [NoCall EXCEPT !.op = "ids_to_text", !.self = i,
                                !.in_ids = id_sequence,
                                !.err = r.err, !.out = r.text,
                                !.pre = not_found_characters(i)]
  /\ UNCHANGED <<tok, heap, own>>

\* tokenizer.characters = new_characters
SetCharacters(i, new_characters) ==
  /\ last.op = "none"
  /\ tok[i].alive
  /\ LET r == characters_setter(tok[i], new_characters)
     IN  /\ tok' = [tok EXCEPT ![i] = r.obj]
         /\ last' = [NoCall EXCEPT !.op = "characters", !.self = i,
                                   !.err = r.err,
                                   !.pre = not_found_characters(i)]
  /\ UNCHANGED <<heap, own>>

\* tokenizer.intersperse_blank_char(x, use_blank_char)
IntersperseBlankChar(i, x, use_blank_char) ==
  /\ last.op = "none"
  /\ tok[i].alive
  /\ last' = [NoCall EXCEPT !.op = "intersperse_blank_char", !.self = i,
                            !.isList = x.isList, !.syms = list(x),
                            !.use_blank_char = use_blank_char,
                            !.out_syms = intersperse_blank_char(tok[i], x, use_blank_char),
                            !.pre = not_found_characters(i)]
  /\ UNCHANGED <<tok, heap, own>>

\* tokenizer.pad_with_bos_eos(x)
PadWithBosEos(i, x) ==
  /\ last.op = "none"
  /\ tok[i].alive
  /\ last' = [NoCall EXCEPT !.op = "pad_with_bos_eos", !.self = i,
                            !.isList = x.isList, !.syms = list(x),
                            !.out_syms = pad_with_bos_eos(tok[i], x),
                            !.pre = not_found_characters(i)]
  /\ UNCHANGED <<tok, heap, own>>

\* the call in progress returns to its caller
Return ==
  /\ last.op # "none"
  /\ last' = NoCall
  /\ UNCHANGED <<tok, heap, own>>

\* one grapheme tokenizer under every combination of add_blank and
\* use_eos_bos: the text_to_ids pipeline and its two sequence helpers
Next ==
  \/ \E cs \in {"Graphemes", "Combined", "Digraph"}, ab, eb \in BOOLEAN :
       Construct(1, FALSE, None, cs, NoPhonemizer, ab, eb)
  \/ \E text \in Texts : TextToIds(1, text, None)
  \/ \E text \in Texts, ubc \in BOOLEAN : IntersperseBlankChar(1, Str(text), ubc)
  \/ \E l \in SymbolLists, ubc \in BOOLEAN : IntersperseBlankChar(1, List(l), ubc)
  \/ \E text \in Texts : PadWithBosEos(1, Str(text))
  \/ \E l \in SymbolLists : PadWithBosEos(1, List(l))
  \/ Return

Spec == Init /\ [][Next]_vars

\* one plain grapheme tokenizer (no blank, no bos/eos) and every call on it
NextEnc ==
  \/ \E cs \in {"Graphemes", "Combined"} :
       Construct(1, FALSE, None, cs, NoPhonemizer, FALSE, FALSE)
  \/ \E text \in Texts : TextToIds(1, text, None)
  \/ \E text \in Texts : Encode(1, Str(text))
  \/ \E l \in SymbolLists : Encode(1, List(l))
  \/ \E ids \in IdSequences : IdsToText(1, ids)
  \/ \E cs \in {"Graphemes", "Combined"} : SetCharacters(1, cs)
  \/ Return

SpecEnc == Init /\ [][NextEnc]_vars

\* two grapheme tokenizers, their calls interleaved
NextTwo ==
  \/ \E i \in {1, 2}, cs \in {"Graphemes", "Combined"} :
       Construct(i, FALSE, None, cs, NoPhonemizer, FALSE, FALSE)
  \/ \E i \in {1, 2}, text \in ShortTexts : TextToIds(i, text, None)
  \/ \E i \in {1, 2}, text \in ShortTexts : Encode(i, Str(text))
  \/ Return

SpecTwo == Init /\ [][NextTwo]_vars

\* one tokenizer over the jamo inventory, with and without phonemes
NextPhon ==
  \/ \E up, ab \in BOOLEAN,
        ph \in {NoPhonemizer, KO_KR_Phonemizer, PhonemizerDict} :
       Construct(1, up, None, "Jamo", ph, ab, FALSE)
  \/ \E text \in KoTexts, language \in Languages : TextToIds(1, text, language)
  \/ Return

SpecPhon == Init /\ [][NextPhon]_vars

\* one tokenizer built from a configuration, and text_to_ids on it
NextCfg ==
  \/ \E config \in Configs : InitFromConfig(1, config)
  \/ \E text \in KoTexts, language \in Languages : TextToIds(1, text, language)
  \/ Return

SpecCfg == Init /\ [][NextCfg]_vars

\* ------------------------------------------------------------------ claims
\* the character set and the list of instance i
Characters(i) == CharacterSets[tok[i].characters]

\* the call in progress is op, made on a tokenizer with no cleaner and
\* use_phonemes = False
PlainCall(op) ==
  /\ last.op = op
  /\ tok[last.self].text_cleaner = None
  /\ ~tok[last.self].use_phonemes

\* character c is a vocabulary symbol of its own
CharInVocab(cs, c) == InVocab(cs, <<c>>)

IdsOf(cs, syms) == [k \in 1..Len(syms) |-> char_to_id(cs, syms[k]).id]

\* C1: text_to_ids (no cleaner, use_phonemes = False, any add_blank and
\* use_eos_bos) never fails on a character absent from the vocabulary: it
\* returns, every symbol handed to char_to_id is in the vocabulary, and every
\* absent character of the text is in an entry of not_found_characters.
C1_UnknownCharactersNeverFail ==
  PlainCall("text_to_ids") =>
    /\ last.err = None
    /\ \A k \in 1..Len(last.tokenized_text) :
         InVocab(Characters(last.self), last.tokenized_text[k])
    /\ \A c \in Range(last.text) :
         ~CharInVocab(Characters(last.self), c) =>
           \E e \in Range(not_found_characters(last.self)) : c \in Range(e)

\* C2: encode(str) returns exactly the IDs of the in-vocabulary characters of
\* the text, in order, and afterwards every out-of-vocabulary character of the
\* text is in not_found_characters exactly once as an entry of its own.
C2_EachUnknownCharacterOnce ==
  (last.op = "encode" /\ ~last.isList) =>
    LET cs == Characters(last.self)
        kept == SelectSeq(last.text, LAMBDA c : CharInVocab(cs, c))
        nf == not_found_characters(last.self)
    IN  /\ last.err = None
        /\ last.ids = IdsOf(cs, [k \in 1..Len(kept) |-> <<kept[k]>>])
        /\ \A c \in Range(last.text) :
             ~CharInVocab(cs, c) =>
               Cardinality({k \in 1..Len(nf) : nf[k] = <<c>>}) = 1

\* C3: not_found_characters never holds an entry twice, and every call
\* (text_to_ids, encode, ids_to_text, characters reassignment) leaves the
\* contents it found as a prefix of the contents it leaves.
C3_NotFoundAppendOnly ==
  \A i \in {1, 2} :
    tok[i].alive =>
      /\ NoDuplicates(not_found_characters(i))
      /\ (last.self = i /\ last.op \notin {"none", "__init__"}) =>
           IsPrefix(last.pre, not_found_characters(i))

\* C3 witness: a call on a list of two entries met segments that are
\* already in it and left the list as it was
C3_Witness ==
  /\ last.op = "encode"
  /\ ~last.isList
  /\ Len(last.pre) = 2
  /\ not_found_characters(last.self) = last.pre
  /\ \E e \in Range(not_found_tokenizer_tokenize(
                     MakePattern(tok[last.self].not_found_tokenizer), last.text)) :
       e \in Range(last.pre)

\* s is a concatenation of vocabulary symbols, from position i on
RECURSIVE ComposedOfSymbols(_, _, _)
ComposedOfSymbols(vocab, s, i) ==
  \/ i > Len(s)
  \/ \E j \in 1..Len(vocab) :
       /\ MatchesAt(vocab[j], s, i)
       /\ ComposedOfSymbols(vocab, s, i + Len(vocab[j]))

\* C4: on a tokenizer with no cleaner, no phonemes, no blank and no bos/eos,
\* every text composed only of vocabulary symbols satisfies
\* ids_to_text(text_to_ids(s)) = s, and the call adds nothing to
\* not_found_characters.
C4_RoundTrip ==
  ( /\ PlainCall("text_to_ids")
    /\ ~tok[last.self].add_blank
    /\ ~tok[last.self].use_eos_bos
    /\ ComposedOfSymbols(Characters(last.self).vocab, last.text, 1) ) =>
    /\ last.err = None
    /\ ids_to_text(tok[last.self], last.ids) = [err |-> None, text |-> last.text]
    /\ not_found_characters(last.self) = last.pre

\* C5: with add_blank = True, text_to_ids returns the IDs of the text's
\* vocabulary symbols (the segmentation of the text) with the blank symbol
\* between every two of them and at both ends.
C5_BlankBetweenSymbols ==
  ( /\ PlainCall("text_to_ids")
    /\ tok[last.self].add_blank
    /\ ~tok[last.self].use_eos_bos ) =>
    LET t == tok[last.self]
        symbols == tokenizer_tokenize(MakePattern(t.tokenizer), last.text)
    IN  /\ last.err = None
        /\ last.ids = IdsOf(Characters(last.self),
                            intersperse_blank_char(t, List(symbols), TRUE))

\* the shape of an interspersed sequence: 2n+1 long, the filler at every even
\* (0-based) index, the items in order at the odd ones
Interspersed(out, items, filler) ==
  /\ Len(out) = 2 * Len(items) + 1
  /\ \A k \in 1..Len(out) :
       IF (k - 1) % 2 = 0 THEN out[k] = filler ELSE out[k] = items[k \div 2]

\* C6 as stated: intersperse_blank_char(seq), called with the sequence alone,
\* puts the blank symbol at every even index.
C6_FillerIsBlank ==
  (last.op = "intersperse_blank_char" /\ ~last.use_blank_char) =>
    Interspersed(last.out_syms, last.syms, Characters(last.self).blank)

\* C6 amended: intersperse_blank_char(seq, use_blank_char) is 2n+1 long with
\* the items of seq in order at the odd indices; the filler at every even
\* index is the blank symbol when use_blank_char is True and the pad symbol
\* when it is False, which is the default.
C6_FillerByFlag ==
  last.op = "intersperse_blank_char" =>
    Interspersed(last.out_syms, last.syms,
                 IF last.use_blank_char THEN Characters(last.self).blank
                 ELSE Characters(last.self).pad)

\* C6 witness: the default call on a sequence of two or more items
C6_Witness ==
  /\ last.op = "intersperse_blank_char"
  /\ ~last.use_blank_char
  /\ Len(last.syms) >= 2
  /\ Len(last.out_syms) = 2 * Len(last.syms) + 1

C8_NoPhonemeTokenizerWithoutPhonemizer ==
  /\ \A i \in {1, 2} :
       tok[i].alive => ~(tok[i].use_phonemes /\ tok[i].phonemizer = NoPhonemizer)
  /\ (last.op = "text_to_ids" /\ tok[last.self].phonemizer = NoPhonemizer) =>
       last.err = None

\* C9: with use_phonemes = True and a mapping from language code to backend,
\* text_to_ids(text, language) phonemizes with the backend of that language,
\* and fails with UnsupportedLanguageError, not_found_characters unchanged,
\* when the mapping has no backend for the language.
C9_BackendByLanguage ==
  ( /\ last.op = "text_to_ids"
    /\ tok[last.self].use_phonemes
    /\ tok[last.self].phonemizer.kind = "dict" ) =>
    IF last.language \in tok[last.self].phonemizer.langs
      THEN LET r == text_to_ids([tok[last.self] EXCEPT !.phonemizer = KO_KR_Phonemizer],
                                last.text, last.language)
           IN  last.err = r.err /\ last.ids = r.ids
      ELSE /\ last.err = "UnsupportedLanguageError"
           /\ not_found_characters(last.self) = last.pre

\* C10: two instances never share not_found_characters: the list of each
\* holds exactly the entries its own calls have logged, however the calls on
\* the two are interleaved.
C10_NotFoundPerInstance ==
  /\ \A i \in {1, 2} : tok[i].alive => not_found_characters(i) = own[i]
  /\ (tok[1].alive /\ tok[2].alive) =>
       tok[1].not_found_characters # tok[2].not_found_characters

\* C10 witness: both instances have logged, and not the same entries
C10_Witness ==
  /\ tok[1].alive /\ tok[2].alive
  /\ own[1] # <<>> /\ own[2] # <<>>
  /\ own[1] # own[2]
  /\ not_found_characters(1) = own[1]

\* the longest vocabulary symbol that matches at position i of text, whatever
\* its place in vocab (0: none matches)
LongestMatchAt(vocab, text, i) ==
  LET m == {j \in 1..Len(vocab) : MatchesAt(vocab[j], text, i)}
  IN  IF m = {} THEN 0
      ELSE CHOOSE j \in m : \A k \in m : Len(vocab[k]) <= Len(vocab[j])

\* the longest-match segmentation of text from position i on
RECURSIVE LongestSegments(_, _, _)
LongestSegments(vocab, text, i) ==
  IF i > Len(text) THEN <<>>
  ELSE LET j == LongestMatchAt(vocab, text, i)
       IN  IF j = 0 THEN LongestSegments(vocab, text, i + 1)
           ELSE <<vocab[j]>> \o LongestSegments(vocab, text, i + Len(vocab[j]))

\* the characters of text that no symbol of the longest-match segmentation
\* covers
RECURSIVE LongestUncovered(_, _, _)
LongestUncovered(vocab, text, i) ==
  IF i > Len(text) THEN {}
  ELSE LET j == LongestMatchAt(vocab, text, i)
       IN  IF j = 0 THEN {text[i]} \cup LongestUncovered(vocab, text, i + 1)
           ELSE LongestUncovered(vocab, text, i + Len(vocab[j]))

\* C11: encode segments a string by longest match: the symbols it hands to
\* char_to_id are the longest-match segmentation of the text, whatever the
\* order of vocab, and every entry the call adds to not_found_characters is
\* made of characters at which no vocabulary symbol matches under that
\* segmentation.
C11_LongestMatch ==
  (last.op = "encode" /\ ~last.isList) =>
    LET vocab == Characters(last.self).vocab
        nf == not_found_characters(last.self)
    IN  /\ last.tokenized_text = LongestSegments(vocab, last.text, 1)
        /\ \A k \in 1..Len(nf) :
             nf[k] \notin Range(last.pre) =>
               Range(nf[k]) \subseteq LongestUncovered(vocab, last.text, 1)

\* C12: init_from_config returns a tokenizer for every configuration of the
\* contract: it does not fail; with use_phonemes = False the tokenizer is over
\* the grapheme character set and has no phonemizer; with text_cleaner absent
\* it has no cleaner; its add_blank and use_eos_bos are the config's add_blank
\* and enable_eos_bos_chars.
C12_FromEveryConfig ==
  last.op = "init_from_config" =>
    LET t == tok[last.self]
        config == last.config
    IN  /\ last.err = None
        /\ t.alive
        /\ ~config.use_phonemes =>
             (t.characters = Graphemes_init_from_config(config)
                /\ t.phonemizer = NoPhonemizer)
        /\ config.text_cleaner = None => t.text_cleaner = None
        /\ t.add_blank = config.add_blank
        /\ t.use_eos_bos = config.enable_eos_bos_chars

=============================================================================
